---------------------------- MODULE Spec2Model ----------------------------
(***************************************************************************)
(* Doctor appointment API (src/api.py): the in-memory booking ledger, the  *)
(* seeded weekly templates, the availability query for a date and for the  *)
(* coming week, the booking handler, the listing and the clear.            *)
(*                                                                         *)
(* Text is modelled as a sequence of one-character strings, so that        *)
(* strptime, strftime, str.startswith, str.split and the f-string of the   *)
(* source are computed character by character.                             *)
(***************************************************************************)
EXTENDS Integers, Sequences, FiniteSets, TLC

(***************************************************************************)
(* Bounds of the model.                                                    *)
(***************************************************************************)
\* The ledger is explored up to this many appointments.
MaxLedger == 2

\* The ledger of the week's run is explored up to this many appointments: one
\* more than the shortest weekday template, so that a weekday can be booked out.
MaxWeekLedger == 3

\* The clock is followed for this many midnights after the first day.
MaxDays == 6

\* The day-by-day search of the weekly query is followed for this many steps.
MaxSearch == 8

(***************************************************************************)
(* Characters.                                                             *)
(***************************************************************************)
Digits == <<"0", "1", "2", "3", "4", "5", "6", "7", "8", "9">>

IsDigit(c) == \E i \in 1..Len(Digits) : Digits[i] = c

DigitVal(c) == (CHOOSE i \in 1..Len(Digits) : Digits[i] = c) - 1

DigitChar(n) == Digits[n + 1]

\* The value of a non-empty sequence of digits.
RECURSIVE NumVal(_)
NumVal(s) ==
    IF Len(s) = 0 THEN 0
    ELSE NumVal(SubSeq(s, 1, Len(s) - 1)) * 10 + DigitVal(s[Len(s)])

AllDigits(s) == \A i \in 1..Len(s) : IsDigit(s[i])

\* n written with two digits, zero padded (%m, %d, %I, %M of strftime).
TwoDigits(n) == <<DigitChar((n \div 10) % 10), DigitChar(n % 10)>>

\* The year as strftime's %Y writes it for the years 1000..9999.
FourDigits(n) ==
    <<DigitChar((n \div 1000) % 10), DigitChar((n \div 100) % 10),
      DigitChar((n \div 10) % 10), DigitChar(n % 10)>>

\* str.startswith
StartsWith(s, prefix) ==
    /\ Len(prefix) <= Len(s)
    /\ SubSeq(s, 1, Len(prefix)) = prefix

\* str.find from position i: the first position >= i at which sep occurs in
\* s, 0 when there is none.
RECURSIVE Find(_, _, _)
Find(s, sep, i) ==
    IF i + Len(sep) - 1 > Len(s) THEN 0
    ELSE IF SubSeq(s, i, i + Len(sep) - 1) = sep THEN i
    ELSE Find(s, sep, i + 1)

Min(S) == CHOOSE x \in S : \A y \in S : x <= y

\* str.split(sep): the pieces of s between the occurrences of sep, scanned
\* from the left without overlap.
RECURSIVE Split(_, _)
Split(s, sep) ==
    LET i == Find(s, sep, 1)
    IN  IF i = 0 THEN <<s>>
        ELSE <<SubSeq(s, 1, i - 1)>> \o Split(SubSeq(s, i + Len(sep), Len(s)), sep)

(***************************************************************************)
(* The calendar of datetime: proleptic Gregorian ordinals.                 *)
(***************************************************************************)
IsLeap(y) == y % 4 = 0 /\ (y % 100 # 0 \/ y % 400 = 0)

DaysInMonth(y, m) ==
    IF m = 2 THEN (IF IsLeap(y) THEN 29 ELSE 28)
    ELSE IF m \in {4, 6, 9, 11} THEN 30 ELSE 31

RECURSIVE DaysBeforeMonth(_, _)
DaysBeforeMonth(y, m) ==
    IF m = 1 THEN 0 ELSE DaysBeforeMonth(y, m - 1) + DaysInMonth(y, m - 1)

DaysBeforeYear(y) ==
    (y - 1) * 365 + ((y - 1) \div 4) - ((y - 1) \div 100) + ((y - 1) \div 400)

Ordinal(date) == DaysBeforeYear(date.y) + DaysBeforeMonth(date.y, date.m) + date.d

DayNames ==
    <<"Monday", "Tuesday", "Wednesday", "Thursday", "Friday", "Saturday", "Sunday">>

\* strftime("%A")
DayName(date) == DayNames[((Ordinal(date) + 6) % 7) + 1]

\* date_obj + timedelta(days=1)
AddDay(date) ==
    IF date.d < DaysInMonth(date.y, date.m) THEN [date EXCEPT !.d = @ + 1]
    ELSE IF date.m < 12 THEN [date EXCEPT !.m = @ + 1, !.d = 1]
    ELSE [date EXCEPT !.y = @ + 1, !.m = 1, !.d = 1]

RECURSIVE AddDays(_, _)
AddDays(date, n) == IF n = 0 THEN date ELSE AddDays(AddDay(date), n - 1)

(***************************************************************************)
(* strptime and strftime with the formats of the source.                   *)
(***************************************************************************)
NoDate == [ok |-> FALSE, y |-> 0, m |-> 0, d |-> 0]

NoTime == [ok |-> FALSE, h |-> 0, mi |-> 0]

\* %m and %I: 1[0-2] | 0[1-9] | [1-9]
IsMonthField(f) ==
    /\ Len(f) \in {1, 2}
    /\ AllDigits(f)
    /\ NumVal(f) \in 1..12

\* %d: 3[01] | [12]\d | 0[1-9] | [1-9] | " "[1-9]
IsDayField(f) ==
    \/ /\ Len(f) \in {1, 2}
       /\ AllDigits(f)
       /\ NumVal(f) \in 1..31
    \/ /\ Len(f) = 2
       /\ f[1] = " "
       /\ IsDigit(f[2])
       /\ DigitVal(f[2]) >= 1

DayFieldVal(f) == IF f[1] = " " THEN DigitVal(f[2]) ELSE NumVal(f)

\* %Y: \d\d\d\d
IsYearField(f) == Len(f) = 4 /\ AllDigits(f)

\* datetime.strptime(s, "%m/%d/%Y"); ok is FALSE where it raises ValueError.
ParseDate(s) ==
    LET f == Split(s, <<"/">>)
    IN  IF /\ Len(f) = 3
           /\ IsMonthField(f[1])
           /\ IsDayField(f[2])
           /\ IsYearField(f[3])
           /\ NumVal(f[3]) >= 1
           /\ DayFieldVal(f[2]) <= DaysInMonth(NumVal(f[3]), NumVal(f[1]))
        THEN [ok |-> TRUE, y |-> NumVal(f[3]), m |-> NumVal(f[1]), d |-> DayFieldVal(f[2])]
        ELSE NoDate

\* %M: [0-5]\d | \d
IsMinuteField(f) ==
    /\ Len(f) \in {1, 2}
    /\ AllDigits(f)
    /\ NumVal(f) \in 0..59

\* %p: AM or PM in either case.
IsMeridiem(f) ==
    /\ Len(f) = 2
    /\ f[1] \in {"A", "a", "P", "p"}
    /\ f[2] \in {"M", "m"}

IsPM(f) == f[1] \in {"P", "p"}

\* The number of blanks that end s.
RECURSIVE TrailingBlanks(_)
TrailingBlanks(s) ==
    IF Len(s) = 0 \/ s[Len(s)] # " " THEN 0
    ELSE 1 + TrailingBlanks(SubSeq(s, 1, Len(s) - 1))

\* datetime.strptime(s, "%I:%M %p"): hour, ":", minute, one or more blanks,
\* meridiem; ok is FALSE where it raises ValueError.
ParseTime(s) ==
    LET f    == Split(s, <<":">>)
        rest == f[2]
        mer  == SubSeq(rest, Len(rest) - 1, Len(rest))
        mid  == SubSeq(rest, 1, Len(rest) - 2)
        nb   == TrailingBlanks(mid)
        minf == SubSeq(mid, 1, Len(mid) - nb)
        h12  == NumVal(f[1])
    IN  IF /\ Len(f) = 2
           /\ IsMonthField(f[1])
           /\ Len(rest) >= 4
           /\ IsMeridiem(mer)
           /\ nb >= 1
           /\ IsMinuteField(minf)
        THEN [ok |-> TRUE,
              h  |-> (h12 % 12) + (IF IsPM(mer) THEN 12 ELSE 0),
              mi |-> NumVal(minf)]
        ELSE NoTime

\* strftime("%m/%d/%Y")
FormatDate(date) ==
    TwoDigits(date.m) \o <<"/">> \o TwoDigits(date.d) \o <<"/">> \o FourDigits(date.y)

\* The hour written without its leading zero.
FormatTime_NoPad(time) ==
    LET h12 == IF time.h % 12 = 0 THEN 12 ELSE time.h % 12
    IN  (IF h12 < 10 THEN <<DigitChar(h12)>> ELSE TwoDigits(h12))
          \o <<":">> \o TwoDigits(time.mi) \o <<" ">>
          \o (IF time.h >= 12 THEN <<"P", "M">> ELSE <<"A", "M">>)

\* strftime("%I:%M %p")
FormatTime(time) ==
    LET h12 == IF time.h % 12 = 0 THEN 12 ELSE time.h % 12
    IN  TwoDigits(h12) \o <<":">> \o TwoDigits(time.mi) \o <<" ">>
          \o (IF time.h >= 12 THEN <<"P", "M">> ELSE <<"A", "M">>)

\* The " at " of the source's format string, f-string and split.
AtSep == <<" ", "a", "t", " ">>


(***************************************************************************)
(* Seed data: the time slots and the doctors' weekly templates.            *)
(***************************************************************************)
T0900AM == <<"0", "9", ":", "0", "0", " ", "A", "M">>

T1000AM == <<"1", "0", ":", "0", "0", " ", "A", "M">>

T1100AM == <<"1", "1", ":", "0", "0", " ", "A", "M">>

T0100PM == <<"0", "1", ":", "0", "0", " ", "P", "M">>

T0200PM == <<"0", "2", ":", "0", "0", " ", "P", "M">>

T0300PM == <<"0", "3", ":", "0", "0", " ", "P", "M">>

\* The seed data with 11:00 AM missing from dr_003's Monday.
doctors_NoEleven ==
    ("dr_001" :> ("Monday"    :> <<T0900AM, T1000AM, T1100AM, T0100PM, T0200PM, T0300PM>>
               @@ "Wednesday" :> <<T0900AM, T1000AM, T1100AM, T0100PM, T0200PM, T0300PM>>
               @@ "Friday"    :> <<T0900AM, T1000AM, T1100AM, T0100PM, T0200PM, T0300PM>>))
 @@ ("dr_002" :> ("Tuesday"   :> <<T0900AM, T1000AM, T1100AM, T0100PM>>
               @@ "Thursday"  :> <<T0900AM, T1000AM, T1100AM, T0100PM, T0300PM>>))
 @@ ("dr_003" :> ("Monday"    :> <<T1000AM, T0100PM, T0300PM>>
               @@ "Wednesday" :> <<T0900AM, T1000AM, T0200PM>>
               @@ "Friday"    :> <<T1000AM, T0100PM, T0200PM>>))

\* doctors[doctor_id].schedule: day name -> the offered times, in order.  A
\* TimeSlot is represented by its time field.
doctors ==
    ("dr_001" :> ("Monday"    :> <<T0900AM, T1000AM, T1100AM, T0100PM, T0200PM, T0300PM>>
               @@ "Wednesday" :> <<T0900AM, T1000AM, T1100AM, T0100PM, T0200PM, T0300PM>>
               @@ "Friday"    :> <<T0900AM, T1000AM, T1100AM, T0100PM, T0200PM, T0300PM>>))
 @@ ("dr_002" :> ("Tuesday"   :> <<T0900AM, T1000AM, T1100AM, T0100PM>>
               @@ "Thursday"  :> <<T0900AM, T1000AM, T1100AM, T0100PM, T0300PM>>))
 @@ ("dr_003" :> ("Monday"    :> <<T1000AM, T1100AM, T0100PM, T0300PM>>
               @@ "Wednesday" :> <<T0900AM, T1000AM, T0200PM>>
               @@ "Friday"    :> <<T1000AM, T0100PM, T0200PM>>))

\* doctor.schedule.get(day_name, [])
ScheduleGet(doctor_id, day_name) ==
    IF day_name \in DOMAIN doctors[doctor_id]
    THEN doctors[doctor_id][day_name]
    ELSE <<>>

(***************************************************************************)
(* The inputs the requests are drawn from.                                 *)
(***************************************************************************)
\* 12/01/2024 is a Sunday, 12/02/2024 a Monday, 12/04/2024 a Wednesday.
Date_12_01_2024 == <<"1", "2", "/", "0", "1", "/", "2", "0", "2", "4">>

Date_12_02_2024 == <<"1", "2", "/", "0", "2", "/", "2", "0", "2", "4">>

Date_12_04_2024 == <<"1", "2", "/", "0", "4", "/", "2", "0", "2", "4">>

\* The same Monday written without the day's leading zero; strptime takes it.
Date_12_2_2024 == <<"1", "2", "/", "2", "/", "2", "0", "2", "4">>

\* Not MM/DD/YYYY.
Date_ISO == <<"2", "0", "2", "4", "-", "1", "2", "-", "0", "2">>

\* 09:00 AM written without the hour's leading zero; strptime takes it.
T900AM == <<"9", ":", "0", "0", " ", "A", "M">>

DoctorIds == {"dr_001", "dr_002", "dr_003", "dr_404"}

DateInputs ==
    {Date_12_01_2024, Date_12_02_2024, Date_12_2_2024, Date_12_04_2024, Date_ISO}

TimeInputs == {T0900AM, T1000AM, T1100AM, T900AM}

JohnDoe == [patient_name |-> "John Doe", request_type |-> "consultation"]

JaneRoe == [patient_name |-> "Jane Roe", request_type |-> "follow-up"]

Patients == {JohnDoe, JaneRoe}

\* Not HH:MM AM/PM.
Time_24h == <<"0", "9", ":", "0", "0">>

Request(p, doctor_id, date, time) ==
    [patient_name   |-> p.patient_name,
     doctor_id      |-> doctor_id,
     request_type   |-> p.request_type,
     preferred_date |-> date,
     preferred_time |-> time]

\* AppointmentRequest (details is never read by the handlers): both patients
\* asking dr_001 and dr_003 for 09:00 AM and 10:00 AM on the Monday in either
\* spelling; one patient asking every doctor for every time on the Sunday and
\* the Monday, and dr_003 for 10:00 AM on the Wednesday; two malformed
\* requests.
Requests ==
    { Request(p, doc, date, time) :
         p \in Patients, doc \in {"dr_001", "dr_003"},
         date \in {Date_12_02_2024, Date_12_2_2024}, time \in {T0900AM, T1000AM} }
    \cup { Request(JohnDoe, doc, date, time) :
              doc \in DoctorIds, date \in {Date_12_01_2024, Date_12_02_2024},
              time \in TimeInputs }
    \cup { Request(JohnDoe, "dr_003", Date_12_04_2024, T1000AM),
           Request(JohnDoe, "dr_001", Date_ISO, T0900AM),
           Request(JaneRoe, "dr_404", Date_12_02_2024, Time_24h) }

\* The requests of the week's run: a patient booking out dr_003's Wednesday
\* (three slots) and taking one slot of dr_003's Monday.
WeekRequests ==
    { Request(JohnDoe, "dr_003", Date_12_04_2024, time) :
         time \in {T0900AM, T1000AM, T0200PM} }
    \cup { Request(JohnDoe, "dr_003", Date_12_02_2024, T1000AM) }

\* The date datetime.now() gives when the run starts: Thursday 11/28/2024.
FirstDay == [ok |-> TRUE, y |-> 2024, m |-> 11, d |-> 28]

\* The dates the clock and the day-by-day search can come to, as strftime
\* writes them.
DayTexts == {FormatDate(AddDays(FirstDay, n)) : n \in 0..(MaxDays + MaxSearch + 1)}

DateTexts == DateInputs \cup DayTexts

\* The dates datetime.now() can give, and how many midnights after the first
\* day each is.
ClockDays == {AddDays(FirstDay, n) : n \in 0..(MaxDays + 1)}

DaysSince == [date \in ClockDays |-> Ordinal(date) - Ordinal(FirstDay)]

TimeTexts == TimeInputs \cup {Time_24h, T0200PM}

\* strptime, strftime("%A") and strftime back to text on every input, each
\* computed once.
DateParsed == [date \in DateTexts |-> ParseDate(date)]

TimeParsed == [time \in TimeTexts |-> ParseTime(time)]

WeekdayOf ==
    [date \in DateTexts |-> IF DateParsed[date].ok THEN DayName(DateParsed[date]) ELSE ""]

DateText ==
    [date \in DateTexts |-> IF DateParsed[date].ok THEN FormatDate(DateParsed[date]) ELSE <<>>]

TimeText ==
    [time \in TimeTexts |->
        IF TimeParsed[time].ok THEN FormatTime(TimeParsed[time]) ELSE <<>>]

\* The query parameters of the availability endpoint, in the shape of a request.
Query(doctor_id, date) ==
    [patient_name   |-> "",
     doctor_id      |-> doctor_id,
     request_type   |-> "",
     preferred_date |-> date,
     preferred_time |-> <<>>]

NoRequest == Query("", <<>>)

(***************************************************************************)
(* State.                                                                  *)
(***************************************************************************)
VARIABLES
    appointments,   \* the ledger: the module-level list of Appointment
    response,       \* what the most recently finished handler returned or raised
    loop,           \* the book handler the event loop is running, if any
    before,         \* the ledger as the handler of response found it when it started
    today,          \* the date datetime.now() gives
    search          \* the day-by-day searches of the weekly query response came from

vars == <<appointments, response, loop, before, today, search>>

NoAppointment ==
    [appointment_id       |-> 0,
     doctor_id            |-> "",
     patient_name         |-> "",
     request_type         |-> "",
     appointment_datetime |-> <<>>,
     status               |-> ""]

Response(op, status, kind, request, times, appointment, listing) ==
    [op          |-> op,
     status      |-> status,
     kind        |-> kind,
     request     |-> request,
     times       |-> times,
     appointment |-> appointment,
     listing     |-> listing]

NoResponse == Response("none", 0, "None", NoRequest, <<>>, NoAppointment, <<>>)

Idle == [pc |-> "idle", request |-> NoRequest, i |-> 0, k |-> 0, alternative_times |-> <<>>]

\* No weekly query made the response.
NoSearch == <<>>

Init ==
    /\ appointments = <<>>
    /\ response = NoResponse
    /\ loop = Idle
    /\ before = <<>>
    /\ today = FirstDay
    /\ search = NoSearch

(***************************************************************************)
(* GET /api/v1/doctor/availability with a date.                            *)
(***************************************************************************)
\* appt.appointment_datetime.split(" at ")[1]
TimePart(appointment_datetime) == Split(appointment_datetime, AtSep)[2]

\* The booked_times list of the single-date branch: the time part of every
\* entry of this doctor whose text starts with the date as it was given.
BookedTimes(ledger, doctor_id, date) ==
    LET mine == SelectSeq(ledger, LAMBDA appt :
                    /\ appt.doctor_id = doctor_id
                    /\ StartsWith(appt.appointment_datetime, date))
    IN  [n \in 1..Len(mine) |-> TimePart(mine[n].appointment_datetime)]

InSeq(x, s) == \E n \in 1..Len(s) : s[n] = x

\* The available_times of the single-date branch, for a known doctor and a
\* date that parses.
AvailableTimes(ledger, doctor_id, date) ==
    LET day_name == WeekdayOf[date]
        booked   == BookedTimes(ledger, doctor_id, date)
    IN  SelectSeq(ScheduleGet(doctor_id, day_name), LAMBDA slot : ~InSeq(slot, booked))

\* What the handler returns or raises for (doctor_id, date) on a ledger.
AvailabilityResult(ledger, doctor_id, date) ==
    LET q == Query(doctor_id, date)
    IN  IF doctor_id \notin DOMAIN doctors
        THEN Response("availability", 404, "NotFound", q, <<>>, NoAppointment, <<>>)
        ELSE IF ~DateParsed[date].ok
        THEN Response("availability", 400, "InvalidDate", q, <<>>, NoAppointment, <<>>)
        ELSE Response("availability", 200, "Availability", q,
                      AvailableTimes(ledger, doctor_id, date), NoAppointment, <<>>)

(***************************************************************************)
(* GET /api/v1/doctor/availability without a date: the coming week.        *)
(***************************************************************************)
\* doctor.schedule.items(): the weekdays of the template in the order they
\* were seeded, which is the order of the week.
ScheduleDays(doctor_id) ==
    SelectSeq(DayNames, LAMBDA day : day \in DOMAIN doctors[doctor_id])

\* A loop that steps to the next day before it tests the weekday.
RECURSIVE DaySearch_StepFirst(_, _, _)
DaySearch_StepFirst(date_obj, day, steps) ==
    IF steps > 0 /\ DayName(date_obj) = day
    THEN [found |-> TRUE, date_obj |-> date_obj, steps |-> steps]
    ELSE IF steps >= MaxSearch
    THEN [found |-> FALSE, date_obj |-> date_obj, steps |-> steps]
    ELSE DaySearch_StepFirst(AddDay(date_obj), day, steps + 1)

\* while date_obj.strftime("%A") != day: date_obj += timedelta(days=1).
\* The loop has no bound of its own; the model follows it for MaxSearch steps
\* and reports a search still running then as not found.
RECURSIVE DaySearch(_, _, _)
DaySearch(date_obj, day, steps) ==
    IF DayName(date_obj) = day
    THEN [found |-> TRUE, date_obj |-> date_obj, steps |-> steps]
    ELSE IF steps >= MaxSearch
    THEN [found |-> FALSE, date_obj |-> date_obj, steps |-> steps]
    ELSE DaySearch(AddDay(date_obj), day, steps + 1)

\* The search from every date of the clock for every weekday, with
\* date_str = date_obj.strftime("%m/%d/%Y") of the date it stops at, each
\* computed once.
Searched ==
    [now \in ClockDays |->
        [day \in {DayNames[n] : n \in 1..Len(DayNames)} |->
            LET result == DaySearch(now, day, 0)
            IN  [day      |-> day,
                 now      |-> now,
                 found    |-> result.found,
                 date_obj |-> result.date_obj,
                 date_str |-> FormatDate(result.date_obj),
                 steps    |-> result.steps]]]

\* The searches of one weekly query, one per template weekday.  Each starts
\* from its own datetime.now(): midnight can pass between two of them, and
\* then the last `late` searches start from the next day.
Searches(doctor_id, now, late) ==
    LET days == ScheduleDays(doctor_id)
    IN  [n \in 1..Len(days) |->
            Searched[IF n > Len(days) - late THEN AddDay(now) ELSE now][days[n]]]

\* The available_times of one weekday: the template's slots less the times of
\* this doctor's entries whose text starts with the date the search found.
WeekdayTimes(ledger, doctor_id, anchor) ==
    LET booked == BookedTimes(ledger, doctor_id, anchor.date_str)
    IN  SelectSeq(doctors[doctor_id][anchor.day], LAMBDA slot : ~InSeq(slot, booked))

\* A mapping that keeps the weekdays with nothing left.
WeeklyAvailability_KeepEmpty(ledger, doctor_id, anchors) ==
    [n \in 1..Len(anchors) |->
        <<anchors[n].day, WeekdayTimes(ledger, doctor_id, anchors[n])>>]

\* The availability dict, as the sequence of its (day, available_times)
\* items: a weekday is entered only if available_times is not empty.
WeeklyAvailability(ledger, doctor_id, anchors) ==
    LET all == [n \in 1..Len(anchors) |->
                   <<anchors[n].day, WeekdayTimes(ledger, doctor_id, anchors[n])>>]
    IN  SelectSeq(all, LAMBDA item : item[2] # <<>>)

\* What the handler returns or raises for doctor_id alone; it gives no answer
\* while a search is still running.
WeeklyResult(ledger, doctor_id, anchors) ==
    LET q == Query(doctor_id, <<>>)
    IN  IF doctor_id \notin DOMAIN doctors
        THEN Response("weekly", 404, "NotFound", q, <<>>, NoAppointment, <<>>)
        ELSE IF \E n \in 1..Len(anchors) : ~anchors[n].found
        THEN Response("weekly", 0, "NoAnswer", q, <<>>, NoAppointment, <<>>)
        ELSE Response("weekly", 200, "Weekly", q,
                      WeeklyAvailability(ledger, doctor_id, anchors), NoAppointment, <<>>)

(***************************************************************************)
(* POST /api/v1/appointments/book.                                         *)
(***************************************************************************)
\* The field validators of AppointmentRequest, run before the handler.
ValidRequest(req) ==
    /\ DateParsed[req.preferred_date].ok
    /\ TimeParsed[req.preferred_time].ok

\* The date kept as the request wrote it.
AppointmentDatetimeStr_RawDate(req) ==
    req.preferred_date \o AtSep \o TimeText[req.preferred_time]

\* datetime.combine(...).strftime("%m/%d/%Y at %I:%M %p")
AppointmentDatetimeStr(req) ==
    DateText[req.preferred_date] \o AtSep \o TimeText[req.preferred_time]

\* [slot.time for slot in doctor.schedule[day_name]]
TemplateTimes(req) ==
    ScheduleGet(req.doctor_id, WeekdayOf[req.preferred_date])

\* The checks without the one of line 238.
Precheck_NoSlotCheck(req) ==
    IF ~ValidRequest(req) THEN "Unprocessable"
    ELSE IF req.doctor_id \notin DOMAIN doctors THEN "NotFound"
    ELSE IF ~(DateParsed[req.preferred_date].ok /\ TimeParsed[req.preferred_time].ok)
    THEN "InvalidFormat"
    ELSE IF WeekdayOf[req.preferred_date] \notin DOMAIN doctors[req.doctor_id]
    THEN "InvalidSchedule"
    ELSE "Pass"

\* The time looked up before the weekday is known to be a working day.
Precheck_SlotFirst(req) ==
    IF ~ValidRequest(req) THEN "Unprocessable"
    ELSE IF req.doctor_id \notin DOMAIN doctors THEN "NotFound"
    ELSE IF ~InSeq(req.preferred_time, TemplateTimes(req)) THEN "InvalidSlot"
    ELSE IF WeekdayOf[req.preferred_date] \notin DOMAIN doctors[req.doctor_id]
    THEN "InvalidSchedule"
    ELSE "Pass"

\* The checks made before the ledger is read, in the order of the code: the
\* kind of the first one that fails, "Pass" when none does.
Precheck(req) ==
    IF ~ValidRequest(req) THEN "Unprocessable"
    ELSE IF req.doctor_id \notin DOMAIN doctors THEN "NotFound"
    ELSE IF ~(DateParsed[req.preferred_date].ok /\ TimeParsed[req.preferred_time].ok)
    THEN "InvalidFormat"
    ELSE IF WeekdayOf[req.preferred_date] \notin DOMAIN doctors[req.doctor_id]
    THEN "InvalidSchedule"
    ELSE IF ~InSeq(req.preferred_time, TemplateTimes(req)) THEN "InvalidSlot"
    ELSE "Pass"

PrecheckStatus(kind) ==
    IF kind = "Unprocessable" THEN 422
    ELSE IF kind = "NotFound" THEN 404
    ELSE 400

Rejection(req, kind) ==
    Response("book", PrecheckStatus(kind), kind, req, <<>>, NoAppointment, <<>>)

\* The entry compared with the request's date and time as they were written.
IsConflict_RawDate(appt, req) ==
    /\ appt.doctor_id = req.doctor_id
    /\ appt.appointment_datetime = req.preferred_date \o AtSep \o req.preferred_time

\* The test of the conflict scan on one ledger entry.
IsConflict(appt, req) ==
    /\ appt.doctor_id = req.doctor_id
    /\ appt.appointment_datetime = AppointmentDatetimeStr(req)

\* The f-string built from the date as the request wrote it.
IsAlternative_RawDate(ledger, req, time) ==
    LET mine == SelectSeq(ledger, LAMBDA a : a.doctor_id = req.doctor_id)
        text == req.preferred_date \o AtSep \o time
    IN  ~\E n \in 1..Len(mine) : mine[n].appointment_datetime = text

\* The test of the alternative_times comprehension on one template time: no
\* entry of this doctor reads "<MM/DD/YYYY of the date> at <time>".
IsAlternative(ledger, req, time) ==
    LET mine == SelectSeq(ledger, LAMBDA a : a.doctor_id = req.doctor_id)
        text == DateText[req.preferred_date] \o AtSep \o time
    IN  ~\E n \in 1..Len(mine) : mine[n].appointment_datetime = text

ConflictResponse(req, alternative_times) ==
    Response("book", 409, "Conflict", req, alternative_times, NoAppointment, <<>>)

\* uuid4: an identifier no entry of the ledger carries.
FreshId(ledger) ==
    LET used == {ledger[n].appointment_id : n \in 1..Len(ledger)}
    IN  Min({id \in 1..(Len(ledger) + 1) : id \notin used})

NewAppointment(ledger, req) ==
    [appointment_id       |-> FreshId(ledger),
     doctor_id            |-> req.doctor_id,
     patient_name         |-> req.patient_name,
     request_type         |-> req.request_type,
     appointment_datetime |-> AppointmentDatetimeStr(req),
     status               |-> "success"]

SuccessResponse(req, appt) ==
    Response("book", 200, "Success", req, <<>>, appt, <<>>)

\* The handler run without interruption on a ledger: its response.
BookResult(ledger, req) ==
    IF Precheck(req) # "Pass" THEN Rejection(req, Precheck(req))
    ELSE IF \E n \in 1..Len(ledger) : IsConflict(ledger[n], req)
    THEN ConflictResponse(req,
             SelectSeq(TemplateTimes(req), LAMBDA time : IsAlternative(ledger, req, time)))
    ELSE SuccessResponse(req, NewAppointment(ledger, req))

(***************************************************************************)
(* Requests served one after another: every handler runs whole.            *)
(***************************************************************************)
\* The append made before the conflict scan.
LedgerAfter_AppendBeforeScan(ledger, result) ==
    IF result.kind \in {"Success", "Conflict"}
    THEN Append(ledger, NewAppointment(ledger, result.request))
    ELSE ledger

\* The ledger a book handler leaves: appointments.append(new_appointment) is
\* reached only when nothing was raised.
LedgerAfter(ledger, result) ==
    IF result.kind = "Success" THEN Append(ledger, result.appointment) ELSE ledger

\* The handler run start to end, on a ledger explored up to limit entries.
Book(req, limit) ==
    LET result == BookResult(appointments, req)
    IN  /\ loop = Idle
        /\ result.kind = "Success" => Len(appointments) < limit
        /\ response' = result
        /\ appointments' = LedgerAfter(appointments, result)
        /\ before' = appointments
        /\ search' = NoSearch
        /\ UNCHANGED <<loop, today>>

BookAppointment(req) == Book(req, MaxLedger)

\* An availability query that empties the ledger it has read.
GetDoctorAvailability_Clearing(doctor_id, date) ==
    /\ loop = Idle
    /\ response' = AvailabilityResult(appointments, doctor_id, date)
    /\ before' = appointments
    /\ search' = NoSearch
    /\ appointments' = <<>>
    /\ UNCHANGED <<loop, today>>

GetDoctorAvailability(doctor_id, date) ==
    /\ loop = Idle
    /\ response' = AvailabilityResult(appointments, doctor_id, date)
    /\ before' = appointments
    /\ search' = NoSearch
    /\ UNCHANGED <<appointments, loop, today>>

\* A clear that drops the newest entry only.
ClearAppointments_PopLast ==
    /\ appointments' = SubSeq(appointments, 1, Len(appointments) - 1)
    /\ response' = IF loop = Idle
                   THEN Response("clear", 200, "Cleared", NoRequest, <<>>, NoAppointment, <<>>)
                   ELSE response
    /\ before' = IF loop = Idle THEN appointments ELSE before
    /\ search' = NoSearch
    /\ UNCHANGED <<loop, today>>

\* DELETE /api/v1/appointments/clear.  A plain def: it runs on a worker
\* thread, so it can take effect between two steps of a running book handler.
ClearAppointments ==
    /\ appointments' = <<>>
    /\ response' = IF loop = Idle
                   THEN Response("clear", 200, "Cleared", NoRequest, <<>>, NoAppointment, <<>>)
                   ELSE response
    /\ before' = IF loop = Idle THEN appointments ELSE before
    /\ search' = NoSearch
    /\ UNCHANGED <<loop, today>>

\* A listing that returns the newest booking first.
GetAppointments_NewestFirst ==
    /\ loop = Idle
    /\ response' = IF Len(appointments) = 0
                   THEN Response("list", 200, "Message", NoRequest, <<>>, NoAppointment, <<>>)
                   ELSE Response("list", 200, "Appointments", NoRequest, <<>>, NoAppointment,
                                 [n \in 1..Len(appointments) |->
                                     appointments[Len(appointments) + 1 - n]])
    /\ before' = appointments
    /\ search' = NoSearch
    /\ UNCHANGED <<appointments, loop, today>>

\* GET /api/v1/appointments
GetAppointments ==
    /\ loop = Idle
    /\ response' = IF Len(appointments) = 0
                   THEN Response("list", 200, "Message", NoRequest, <<>>, NoAppointment, <<>>)
                   ELSE Response("list", 200, "Appointments", NoRequest, <<>>,
                                 NoAppointment, appointments)
    /\ before' = appointments
    /\ search' = NoSearch
    /\ UNCHANGED <<appointments, loop, today>>

\* GET /api/v1/doctor/availability without a date, midnight passing before
\* the last `late` of its searches.
GetWeeklyAvailability(doctor_id, late) ==
    LET anchors == IF doctor_id \in DOMAIN doctors
                   THEN Searches(doctor_id, today, late)
                   ELSE <<>>
    IN  /\ loop = Idle
        /\ late <= Len(anchors)
        /\ late > 0 => DaysSince[today] < MaxDays
        /\ response' = WeeklyResult(appointments, doctor_id, anchors)
        /\ search' = anchors
        /\ before' = appointments
        /\ today' = IF late > 0 THEN AddDay(today) ELSE today
        /\ UNCHANGED <<appointments, loop>>

Next ==
    \/ \E req \in Requests : BookAppointment(req)
    \/ \E doctor_id \in DoctorIds, date \in DateInputs :
           GetDoctorAvailability(doctor_id, date)
    \/ \E doctor_id \in DoctorIds : GetWeeklyAvailability(doctor_id, 0)
    \/ ClearAppointments
    \/ GetAppointments

Spec == Init /\ [][Next]_vars

(***************************************************************************)
(* The week's run: the requests served one at a time while the days pass.  *)
(***************************************************************************)
BookWeek(req) == Book(req, MaxWeekLedger)

\* Midnight: datetime.now() gives the next date from here on.
Tick ==
    /\ DaysSince[today] < MaxDays
    /\ today' = AddDay(today)
    /\ UNCHANGED <<appointments, response, loop, before, search>>

NextWeekly ==
    \/ \E req \in WeekRequests : BookWeek(req)
    \/ \E date \in {Date_12_02_2024, Date_12_04_2024} :
           GetDoctorAvailability("dr_003", date)
    \/ \E doctor_id \in DoctorIds, late \in 0..2 :
           GetWeeklyAvailability(doctor_id, late)
    \/ ClearAppointments
    \/ Tick

SpecWeekly == Init /\ [][NextWeekly]_vars

(***************************************************************************)
(* Requests served concurrently.  book_appointment is an async def without *)
(* an await: the event loop runs one such handler at a time, start to      *)
(* end.  clear_appointments runs on a worker thread and interleaves with   *)
(* the steps of the running book handler.                                  *)
(***************************************************************************)
Pending(req) == Response("book", 0, "Pending", req, <<>>, NoAppointment, <<>>)

\* Lines 209-242: the checks that do not read the ledger.
BookBegin(req) ==
    /\ loop = Idle
    /\ IF Precheck(req) # "Pass"
       THEN /\ response' = Rejection(req, Precheck(req))
            /\ UNCHANGED loop
       ELSE /\ response' = Pending(req)
            /\ loop' = [Idle EXCEPT !.pc = "scan", !.request = req]
    /\ before' = appointments
    /\ search' = NoSearch
    /\ UNCHANGED <<appointments, today>>

\* Lines 245-246: one step of the list iterator and the test on its entry.
BookScan ==
    /\ loop.pc = "scan"
    /\ IF loop.i < Len(appointments)
       THEN IF IsConflict(appointments[loop.i + 1], loop.request)
            THEN loop' = [loop EXCEPT !.pc = "alternatives"]
            ELSE loop' = [loop EXCEPT !.i = loop.i + 1]
       ELSE loop' = [loop EXCEPT !.pc = "append"]
    /\ UNCHANGED <<appointments, response, before, today, search>>

\* Lines 247-260: one template time of the alternative_times comprehension,
\* its inner list read from the ledger as it is now; after the last one the
\* 409 is raised.
BookAlternatives ==
    /\ loop.pc = "alternatives"
    /\ LET times == TemplateTimes(loop.request)
           time  == times[loop.k + 1]
           alts  == IF IsAlternative(appointments, loop.request, time)
                    THEN Append(loop.alternative_times, time)
                    ELSE loop.alternative_times
       IN  IF loop.k + 1 < Len(times)
           THEN /\ loop' = [loop EXCEPT !.k = loop.k + 1, !.alternative_times = alts]
                /\ UNCHANGED response
           ELSE /\ loop' = Idle
                /\ response' = ConflictResponse(loop.request, alts)
    /\ UNCHANGED <<appointments, before, today, search>>

\* An append that puts the new appointment first.
BookAppend_Prepend ==
    /\ loop.pc = "append"
    /\ Len(appointments) < MaxLedger
    /\ LET appt == NewAppointment(appointments, loop.request)
       IN  /\ appointments' = <<appt>> \o appointments
           /\ response' = SuccessResponse(loop.request, appt)
    /\ loop' = Idle
    /\ UNCHANGED <<before, today, search>>

\* Lines 262-272
BookAppend ==
    /\ loop.pc = "append"
    /\ Len(appointments) < MaxLedger
    /\ LET appt == NewAppointment(appointments, loop.request)
       IN  /\ appointments' = Append(appointments, appt)
           /\ response' = SuccessResponse(loop.request, appt)
    /\ loop' = Idle
    /\ UNCHANGED <<before, today, search>>

NextConc ==
    \/ \E req \in Requests : BookBegin(req)
    \/ BookScan
    \/ BookAlternatives
    \/ BookAppend
    \/ \E doctor_id \in DoctorIds, date \in DateInputs :
           GetDoctorAvailability(doctor_id, date)
    \/ \E doctor_id \in DoctorIds : GetWeeklyAvailability(doctor_id, 0)
    \/ ClearAppointments
    \/ GetAppointments

SpecConc == Init /\ [][NextConc]_vars

(***************************************************************************)
(* What the claims speak of.                                               *)
(***************************************************************************)
\* Every text a successful booking can store.
StoredTexts ==
    {AppointmentDatetimeStr(req) : req \in {r \in Requests \cup WeekRequests : ValidRequest(r)}}

\* The calendar date and the clock time a stored text denotes, read back by
\* parsing its two parts.
SlotOf ==
    [text \in StoredTexts |->
        LET parts == Split(text, AtSep)
        IN  IF Len(parts) = 2
            THEN [date |-> ParseDate(parts[1]), time |-> ParseTime(parts[2]),
                  time_text |-> parts[2]]
            ELSE [date |-> NoDate, time |-> NoTime, time_text |-> <<>>]]

\* Two appointments of one doctor on one calendar date at one clock time.
SameSlot(a, b) ==
    /\ a.doctor_id = b.doctor_id
    /\ SlotOf[a.appointment_datetime].date = SlotOf[b.appointment_datetime].date
    /\ SlotOf[a.appointment_datetime].time = SlotOf[b.appointment_datetime].time

\* The appointment is for the doctor, the calendar date and the time (as
\* written) of the request.
Holds(appt, req) ==
    /\ appt.doctor_id = req.doctor_id
    /\ SlotOf[appt.appointment_datetime].date = DateParsed[req.preferred_date]
    /\ SlotOf[appt.appointment_datetime].time_text = req.preferred_time

HasSlot(ledger, req) == \E n \in 1..Len(ledger) : Holds(ledger[n], req)

\* C1: under any interleaving of book and clear requests the ledger never
\* holds two appointments for the same doctor, calendar date and time.
C1_NoDoubleBooking ==
    \A m, n \in 1..Len(appointments) :
        m # n => ~SameSlot(appointments[m], appointments[n])

\* A second request for a booked slot was turned away while the ledger held
\* another appointment as well.
C1_Witness ==
    /\ response.kind = "Conflict"
    /\ Len(appointments) >= 2
    /\ HasSlot(appointments, response.request)

\* C2: served one after another, a book request for a doctor, calendar date
\* and time that the ledger already holds (booked, and not cleared since) is
\* rejected with Conflict, status 409, whoever the patient is.
C2_RebookConflicts ==
    (response.op = "book" /\ ValidRequest(response.request)
        /\ HasSlot(before, response.request))
    => (response.kind = "Conflict" /\ response.status = 409)

\* The slot booked first was asked for again, after another booking, by
\* another patient with the date written another way, and was refused.
C2_Witness ==
    /\ response.kind = "Conflict"
    /\ Len(before) >= 2
    /\ Holds(before[1], response.request)
    /\ before[1].patient_name # response.request.patient_name
    /\ ~StartsWith(before[1].appointment_datetime, response.request.preferred_date)

\* The template slots of the date's weekday less those the ledger holds for
\* this doctor on this calendar date, in template order.
ExpectedFree(ledger, doctor_id, date) ==
    SelectSeq(ScheduleGet(doctor_id, WeekdayOf[date]), LAMBDA slot :
        ~\E n \in 1..Len(ledger) :
            /\ ledger[n].doctor_id = doctor_id
            /\ SlotOf[ledger[n].appointment_datetime].date = DateParsed[date]
            /\ SlotOf[ledger[n].appointment_datetime].time_text = slot)

\* C3: for a known doctor and a date the query accepts, the single-date
\* availability is the weekday's template less the slots booked for that
\* doctor on that calendar date, in template order; an unknown doctor gives
\* NotFound.
C3_AvailabilityExact ==
    response.op = "availability" =>
        IF response.request.doctor_id \notin DOMAIN doctors
        THEN response.kind = "NotFound"
        ELSE DateParsed[response.request.preferred_date].ok =>
                /\ response.kind = "Availability"
                /\ response.times = ExpectedFree(before, response.request.doctor_id,
                                                 response.request.preferred_date)

\* C4: the alternatives of a Conflict are what the availability query gives
\* for the same doctor and the same date input on the ledger as it stood
\* before the attempt.
C4_AlternativesAreAvailability ==
    response.kind = "Conflict" =>
        response.times = AvailableTimes(before, response.request.doctor_id,
                                        response.request.preferred_date)

RejectionKinds ==
    {"Unprocessable", "NotFound", "InvalidFormat", "InvalidSchedule", "InvalidSlot",
     "Conflict"}

\* C5: a rejected book request leaves the ledger as it found it.
C5_RejectionLeavesLedger ==
    (response.op = "book" /\ response.kind \in RejectionKinds) => appointments = before

\* A request was rejected with Conflict on a ledger that holds appointments.
C5_Witness ==
    /\ response.op = "book"
    /\ response.kind = "Conflict"
    /\ Len(before) >= 1
    /\ appointments = before

\* The kind the order of the checks gives a well-formed request.
Classify(ledger, req) ==
    IF req.doctor_id \notin DOMAIN doctors THEN "NotFound"
    ELSE IF WeekdayOf[req.preferred_date] \notin DOMAIN doctors[req.doctor_id]
    THEN "InvalidSchedule"
    ELSE IF ~InSeq(req.preferred_time, doctors[req.doctor_id][WeekdayOf[req.preferred_date]])
    THEN "InvalidSlot"
    ELSE IF HasSlot(ledger, req) THEN "Conflict"
    ELSE "Success"

IsMMDDYYYY(text, date) ==
    /\ Len(text) = 10
    /\ text[3] = "/"
    /\ text[6] = "/"
    /\ \A n \in {1, 2, 4, 5, 7, 8, 9, 10} : IsDigit(text[n])
    /\ NumVal(SubSeq(text, 1, 2)) = date.m
    /\ NumVal(SubSeq(text, 4, 5)) = date.d
    /\ NumVal(SubSeq(text, 7, 10)) = date.y

Text_12_02_2024_at_0900AM ==
    <<"1", "2", "/", "0", "2", "/", "2", "0", "2", "4", " ", "a", "t", " ",
      "0", "9", ":", "0", "0", " ", "A", "M">>

\* C7: a successful book appends one appointment to the end of the ledger
\* and returns it, with the request's doctor_id, patient_name and
\* request_type, status "success", and appointment_datetime
\* "<MM/DD/YYYY of the date> at <the requested time>"; the earlier entries
\* are kept as they were.
C7_SuccessAppends ==
    response.kind = "Success" =>
        LET req  == response.request
            appt == response.appointment
            text == appt.appointment_datetime
        IN  /\ appointments = Append(before, appt)
            /\ appt.doctor_id = req.doctor_id
            /\ appt.patient_name = req.patient_name
            /\ appt.request_type = req.request_type
            /\ appt.status = "success"
            /\ Len(text) = 10 + Len(AtSep) + Len(req.preferred_time)
            /\ IsMMDDYYYY(SubSeq(text, 1, 10), DateParsed[req.preferred_date])
            /\ SubSeq(text, 11, Len(text)) = AtSep \o req.preferred_time
            /\ (/\ req.doctor_id = "dr_001"
                /\ WeekdayOf[req.preferred_date] = "Monday"
                /\ req.preferred_time = T0900AM)
               => text = Text_12_02_2024_at_0900AM

\* dr_001 was booked at 09:00 AM on the Monday written without its leading
\* zero, on a ledger that already held an appointment.
C7_Witness ==
    /\ response.kind = "Success"
    /\ response.request.doctor_id = "dr_001"
    /\ response.request.preferred_date = Date_12_2_2024
    /\ response.request.preferred_time = T0900AM
    /\ Len(before) >= 1
    /\ Len(appointments) = Len(before) + 1

\* The doctor's template lists the time on some weekday.
Offers(doctor_id, time) ==
    \E day \in DOMAIN doctors[doctor_id] : InSeq(time, doctors[doctor_id][day])

\* C8: a book request with a known doctor, a well-formed date and a
\* well-formed time that the doctor offers, on a ledger without an entry for
\* that doctor, date and time, succeeds with status 200 and an appointment
\* that carries an appointment_id (the test: dr_001, 12/01/2024, 09:00 AM,
\* fresh ledger).
C8_OfferedTimeBooks ==
    (/\ response.op = "book"
     /\ response.request.doctor_id \in DOMAIN doctors
     /\ ValidRequest(response.request)
     /\ Offers(response.request.doctor_id, response.request.preferred_time)
     /\ ~HasSlot(before, response.request))
    => (response.status = 200 /\ response.appointment.appointment_id # 0)

IsBookOf(doctor_id, day_name, time) ==
    /\ response.op = "book"
    /\ response.request.doctor_id = doctor_id
    /\ DateParsed[response.request.preferred_date].ok
    /\ WeekdayOf[response.request.preferred_date] = day_name
    /\ response.request.preferred_time = time

\* C9 as stated: dr_003 at 11:00 AM on a Monday is rejected with InvalidSlot.
C9_ElevenIsInvalidSlot ==
    IsBookOf("dr_003", "Monday", T1100AM) => response.kind = "InvalidSlot"

\* C9 as amended: dr_003's Monday template offers 11:00 AM, so that request
\* is booked when the slot is free and rejected with Conflict when it is
\* taken, never with InvalidSlot; 09:00 AM, which dr_003 does not offer on
\* Mondays, is rejected with InvalidSlot.
C9_ElevenIsOffered ==
    /\ IsBookOf("dr_003", "Monday", T1100AM) =>
          response.kind = (IF HasSlot(before, response.request)
                           THEN "Conflict" ELSE "Success")
    /\ IsBookOf("dr_003", "Monday", T0900AM) => response.kind = "InvalidSlot"

\* dr_003 was booked at 11:00 AM on a Monday.
C9_Witness ==
    /\ IsBookOf("dr_003", "Monday", T1100AM)
    /\ response.kind = "Success"
    /\ Len(appointments) = Len(before) + 1

\* The entries of the ledger for the doctor on the calendar date of the request.
OnThatDay(ledger, req) ==
    SelectSeq(ledger, LAMBDA a :
        /\ a.doctor_id = req.doctor_id
        /\ SlotOf[a.appointment_datetime].date = DateParsed[req.preferred_date])

\* C10: with no dr_003 booking on a Monday, booking dr_003 at 10:00 AM that
\* Monday succeeds; asked again while that booking is dr_003's only one that
\* day, it is rejected with Conflict and the alternatives 11:00 AM, 01:00 PM,
\* 03:00 PM in that order.
C10_SecondBookingAlternatives ==
    IsBookOf("dr_003", "Monday", T1000AM) =>
        LET there == OnThatDay(before, response.request)
        IN  /\ Len(there) = 0 => response.kind = "Success"
            /\ (Len(there) = 1 /\ Holds(there[1], response.request)) =>
                  /\ response.kind = "Conflict"
                  /\ response.times = <<T1100AM, T0100PM, T0300PM>>

\* The second of two bookings of dr_003 at 10:00 AM on one Monday, the first
\* of which went through, was answered.
C10_Witness ==
    /\ IsBookOf("dr_003", "Monday", T1000AM)
    /\ response.kind = "Conflict"
    /\ Len(OnThatDay(before, response.request)) = 1
    /\ Holds(OnThatDay(before, response.request)[1], response.request)

\* The request that asks again for the slot an appointment holds: its doctor,
\* and the date and the time of its stored text.
RequestFor(appt) ==
    LET parts == Split(appt.appointment_datetime, AtSep)
    IN  Request(JohnDoe, appt.doctor_id, parts[1], parts[2])

\* C11: clear answers 200 and leaves the ledger empty whatever it held; on the
\* ledger it leaves, every slot it removed is among the available times of its
\* doctor and date, and a book request for it succeeds.
C11_ClearFreesSlots ==
    response.op = "clear" =>
        /\ response.status = 200
        /\ appointments = <<>>
        /\ \A n \in 1..Len(before) :
              LET req == RequestFor(before[n])
                  availability == AvailabilityResult(appointments, req.doctor_id,
                                                     req.preferred_date)
              IN  /\ availability.kind = "Availability"
                  /\ InSeq(req.preferred_time, availability.times)
                  /\ BookResult(before, req).kind = "Conflict"
                  /\ BookResult(appointments, req).kind = "Success"

C11_Witness ==
    /\ response.op = "clear"
    /\ Len(before) = 2
    /\ before[1].doctor_id # before[2].doctor_id

NearestOnOrAfter(now, day) ==
    AddDays(now, CHOOSE k \in 0..6 : DayName(AddDays(now, k)) = day)

\* The entries the weekly mapping has for a weekday.
EntriesFor(items, day) == {n \in 1..Len(items) : items[n][1] = day}

\* C13: for a known doctor the weekly mapping has an entry for a weekday
\* exactly when the weekday is in the doctor's template and the single-date
\* availability on D, the nearest date on or after today that falls on that
\* weekday, is not empty; the entry is that availability, which is the
\* template less the slots booked on D.  A weekday booked out on D and a
\* weekday outside the template have no entry.  (Today is the date the
\* handler read for that weekday.)
C13_WeeklyIsAvailableOn ==
    (response.op = "weekly" /\ response.request.doctor_id \in DOMAIN doctors) =>
        /\ response.status = 200
        /\ response.kind = "Weekly"
        /\ \A d \in 1..Len(DayNames) :
              LET day       == DayNames[d]
                  doctor_id == response.request.doctor_id
                  entries   == EntriesFor(response.times, day)
              IN  IF day \notin DOMAIN doctors[doctor_id]
                  THEN entries = {}
                  ELSE \E s \in 1..Len(search) :
                          /\ search[s].day = day
                          /\ LET D    == FormatDate(NearestOnOrAfter(search[s].now, day))
                                 free == AvailableTimes(before, doctor_id, D)
                             IN  /\ free = ExpectedFree(before, doctor_id, D)
                                 /\ IF free = <<>>
                                    THEN entries = {}
                                    ELSE /\ Cardinality(entries) = 1
                                         /\ \A n \in entries : response.times[n][2] = free

\* dr_003 asked with the three slots of its Wednesday 12/04/2024 booked: no
\* entry for Wednesday, entries for Monday and Friday.
C13_Witness ==
    /\ response.op = "weekly"
    /\ response.request.doctor_id = "dr_003"
    /\ Len(before) = 3
    /\ \A n \in 1..3 : StartsWith(before[n].appointment_datetime, Date_12_04_2024)
    /\ EntriesFor(response.times, "Wednesday") = {}
    /\ EntriesFor(response.times, "Monday") # {}
    /\ EntriesFor(response.times, "Friday") # {}

\* A step that answers an availability query (with a date or for the week)
\* while the answer of the same query is still the latest response: no other
\* request was served between the two.
RepeatedQuery ==
    /\ response.op \in {"availability", "weekly"}
    /\ response'.op = response.op
    /\ response'.request = response.request

\* The date did not change from the first of the two queries to the end of
\* the second.
SameDay ==
    /\ today' = today
    /\ \A s \in 1..Len(search) : search[s].now = today

\* C14 as stated: a query repeated with no booking between the two answers
\* returns the same result.
C14_RepeatIsIdentical ==
    [][RepeatedQuery =>
          /\ response'.status = response.status
          /\ response'.times = response.times]_vars

\* C14: a query repeated with no other request served between the two
\* answers, and for the weekly form with no midnight between them, returns
\* the same result.
C14_RepeatOnSameDayIsIdentical ==
    [][(RepeatedQuery /\ (response.op = "weekly" => SameDay)) =>
          /\ response'.status = response.status
          /\ response'.kind = response.kind
          /\ response'.times = response.times]_vars

\* The weekly query answered, all on one day, on a ledger that takes a slot
\* away from its answer; nothing was served since.
C14_Witness ==
    /\ response.op = "weekly"
    /\ response.request.doctor_id = "dr_003"
    /\ \A s \in 1..Len(search) : search[s].now = today
    /\ before = appointments
    /\ \E n \in EntriesFor(response.times, "Wednesday") :
          Len(response.times[n][2]) < Len(doctors["dr_003"]["Wednesday"])

\* C15: every step leaves the ledger as it is, or is a successful book that
\* adds the appointment it returns after the entries already there, or is a
\* clear that leaves it empty; no entry is changed, moved or taken out alone.
C15_AppendOrClear ==
    [][\/ appointments' = appointments
       \/ /\ Len(appointments') = Len(appointments) + 1
          /\ SubSeq(appointments', 1, Len(appointments)) = appointments
          /\ response'.kind = "Success"
          /\ response'.appointment = appointments'[Len(appointments')]
          /\ loop' = Idle
       \/ /\ appointments' = <<>>
          /\ \/ response'.op = "clear"
             \/ loop # Idle /\ UNCHANGED <<response, loop>>]_vars

\* A second booking of one doctor appended after the first.
C15_Witness ==
    /\ Len(appointments) = 2
    /\ response.kind = "Success"
    /\ response.appointment = appointments[2]
    /\ appointments[1].doctor_id = appointments[2].doctor_id
    /\ Len(before) = 1

\* The clock time each time text of the templates denotes.
SlotClock ==
    [slot \in {T0900AM, T1000AM, T1100AM, T0100PM, T0200PM, T0300PM} |-> ParseTime(slot)]

\* The request's time denotes the clock time of a slot of the template of its
\* doctor for the weekday of its date.
NamesTemplateSlot(req) ==
    /\ ValidRequest(req)
    /\ req.doctor_id \in DOMAIN doctors
    /\ \E n \in 1..Len(TemplateTimes(req)) :
          SlotClock[TemplateTimes(req)[n]] = TimeParsed[req.preferred_time]

\* The ledger holds the doctor, the calendar date and the clock time of the
\* request.
HasClockTime(ledger, req) ==
    \E n \in 1..Len(ledger) :
        /\ ledger[n].doctor_id = req.doctor_id
        /\ SlotOf[ledger[n].appointment_datetime].date = DateParsed[req.preferred_date]
        /\ SlotOf[ledger[n].appointment_datetime].time = TimeParsed[req.preferred_time]

\* C16: a book request whose time denotes the clock time of a template slot,
\* however it is written, is served as that slot: Success if the ledger does
\* not hold it, Conflict if it does, and never InvalidSlot.
C16_SlotByClockTime ==
    (response.op = "book" /\ NamesTemplateSlot(response.request)) =>
        IF HasClockTime(before, response.request)
        THEN response.kind = "Conflict"
        ELSE response.kind = "Success"

\* C17: every search of a weekly query, for whichever template weekday and
\* from whichever current day, stops after at most 6 one-day steps, at the
\* first date on or after the current day that falls on the weekday: the
\* current day itself when it is that weekday.
C17_SearchStopsAtNearest ==
    \A s \in 1..Len(search) :
        LET a == search[s]
        IN  /\ a.found
            /\ a.steps <= 6
            /\ a.date_obj = AddDays(a.now, a.steps)
            /\ DayName(a.date_obj) = a.day
            /\ \A k \in 0..(a.steps - 1) : DayName(AddDays(a.now, k)) # a.day
            /\ DayName(a.now) = a.day => a.steps = 0 /\ a.date_obj = a.now

\* One query with a search of 6 steps and, midnight having passed, a search
\* of none.
C17_Witness ==
    \E s, t \in 1..Len(search) :
        /\ search[s].steps = 6
        /\ search[s].now # search[s].date_obj
        /\ search[t].steps = 0
        /\ search[t].now = search[t].date_obj

\* The weekday of the date of each stored text.
StoredDay ==
    [text \in StoredTexts |->
        IF SlotOf[text].date.ok THEN DayName(SlotOf[text].date) ELSE ""]

\* C18: every appointment of the ledger is for a seeded doctor, on a date
\* whose weekday is a key of that doctor's template, at a time that is one of
\* that weekday's slots, with status "success".
C18_LedgerIsTemplateValid ==
    \A n \in 1..Len(appointments) :
        LET appt == appointments[n]
            text == appt.appointment_datetime
        IN  /\ appt.doctor_id \in DOMAIN doctors
            /\ SlotOf[text].date.ok
            /\ StoredDay[text] \in DOMAIN doctors[appt.doctor_id]
            /\ InSeq(SlotOf[text].time_text, doctors[appt.doctor_id][StoredDay[text]])
            /\ appt.status = "success"

\* Two doctors booked, the second while the first one's entry stood.
C18_Witness ==
    /\ Len(appointments) = 2
    /\ appointments[1].doctor_id = "dr_001"
    /\ appointments[2].doctor_id = "dr_003"
    /\ response.kind = "Success"

\* C19: the alternative times of a Conflict never include the time that was
\* asked for, whatever a clear running beside the book handler does.
C19_AlternativesExcludeRequested ==
    response.kind = "Conflict" =>
        ~InSeq(response.request.preferred_time, response.times)

============================================================================
